---------------------------- MODULE Spec2Model ----------------------------
(***************************************************************************)
(* A model of news_scraper/news_scraper.py: the rate-limited fetch client  *)
(* (_respect_rate_limit, _make_request), the per-source extraction of the  *)
(* fields of an article, NewsArticle and its to_dict, the discovery of     *)
(* article URLs on a front page, and the two public operations             *)
(* fetch_article and fetch_latest_articles.                                *)
(*                                                                         *)
(* Text is a sequence of tokens: a token is a piece of a Python string     *)
(* that the code never looks inside (" " is the whitespace token).  An     *)
(* HTML document is the sequence of its elements in document order, each   *)
(* with a tag, a set of <<attribute, value>> pairs and its text; the end   *)
(* tag of a container (section, article) is an entry of its own.           *)
(*                                                                         *)
(* Time is counted in ticks of the timer's resolution.  The clock moves    *)
(* only where the program blocks (time.sleep, requests.get) and between    *)
(* the calls of the caller; the statements between them take less than a   *)
(* tick.                                                                   *)
(***************************************************************************)
EXTENDS Integers, Sequences, FiniteSets, TLC

VARIABLES
    variant,            \* which class the scraper is: generic, nytimes, bbc
    rate_limit,         \* self.rate_limit
    now,                \* time.time()
    last_request_time,  \* self.last_request_time
    prev_start,         \* when the request before the last one was issued
    last_start,         \* when the last request was issued (-1: none yet)
    calls,              \* calls of _make_request by the operation called last
    gets,               \* requests.get issued by that operation
    net,                \* what the network answered to the last request
    requests,           \* URLs requested by the public operation called last
    log,                \* logger.error records of that operation
    pc,                 \* "idle", or "loop" inside fetch_latest_articles
    op,                 \* the public operation called last
    arg_url,            \* fetch_article: its argument (of the call of op)
    limit,              \* fetch_latest_articles: its argument (likewise)
    front,              \* what the network answered for the front page
    article_urls,       \* fetch_latest_articles: article_urls
    idx,                \* fetch_latest_articles: position of the for loop
    outcomes,           \* per URL visited by the loop: did fetch_article succeed
    articles,           \* fetch_latest_articles: articles
    result,             \* what fetch_article returned: an article or None
    latest,             \* what fetch_latest_articles returned: a list
    raised,             \* TRUE when the public operation raised to its caller
    fn,                 \* the pure function under study (FnSpec)
    soup,               \* its input document
    lim,                \* its input limit
    answer,             \* its input answer of the network
    args,               \* its input arguments of NewsArticle(...)
    out                 \* its output, NotApplied before it ran

vars == <<variant, rate_limit, now, last_request_time, prev_start,
          last_start, calls, gets, net, requests, log,
          pc, op, arg_url, limit, front, article_urls, idx, outcomes,
          articles, result, latest, raised, fn, soup, lim, answer, args,
          out>>

scraperVars == <<rate_limit, now, last_request_time, prev_start,
                 last_start, calls, gets, net, requests, log,
                 pc, op, arg_url, limit, front, article_urls, idx, outcomes,
                 articles, result, latest, raised>>

fnVars == <<fn, soup, lim, answer, args, out>>

----------------------------------------------------------------------------
(* Bounds of the model. *)

MaxText == 2          \* tokens in the text of an element
MaxElems == 2         \* elements of an article document
MaxLinks == 3         \* anchors of a front page
MaxLimit == 2         \* largest limit passed to fetch_latest_articles
MaxRateLimit == 2     \* largest configured rate_limit, in ticks
MaxDelay == 1         \* longest oversleep / network latency, in ticks
MaxTime == 6          \* the clock is not followed past this tick
MaxPage == 3          \* entries of an article page given to fetch_article

----------------------------------------------------------------------------
(* Python values. *)

\* None, and the values that stand where a record is expected, are records
None == [none |-> TRUE]
NotApplied == [applied |-> FALSE]
Applied(v) == [applied |-> TRUE, value |-> v]

\* an Optional[str] that is a string, and an Optional[List[str]] that is a
\* list (None is the other case of both)
Str(text) == [str |-> text]
List(items) == [list |-> items]

Variants == {"generic", "nytimes", "bbc"}

\* NewsScraper.__init__ / NYTimesScraper.__init__ / BBCScraper.__init__
base_url(v) ==
    CASE v = "nytimes" -> <<"https://www.nytimes.com">>
      [] v = "bbc"     -> <<"https://www.bbc.com", "/", "news">>
      [] OTHER         -> <<"https://example.com">>

\* urlparse(base_url).netloc
domain(v) ==
    CASE v = "nytimes" -> <<"www.nytimes.com">>
      [] v = "bbc"     -> <<"www.bbc.com">>
      [] OTHER         -> <<"example.com">>

Whitespace == {" "}

\* tokens that begin with the characters "http"
HttpTokens == {"https://www.nytimes.com", "https://www.bbc.com", "https://example.com"}

SeqsUpTo(S, n) == UNION {[1..k -> S] : k \in 0..n}

InSeq(x, s) == \E i \in 1..Len(s) : s[i] = x

\* str.startswith
StartsWith(s, pre) ==
    /\ Len(s) >= Len(pre)
    /\ SubSeq(s, 1, Len(pre)) = pre

\* sub in s
Contains(s, sub) ==
    \E i \in 1..(Len(s) - Len(sub) + 1) : SubSeq(s, i, i + Len(sub) - 1) = sub

RECURSIVE lstrip(_)
lstrip(s) ==
    IF s # <<>> /\ Head(s) \in Whitespace THEN lstrip(Tail(s)) ELSE s

RECURSIVE rstrip(_)
rstrip(s) ==
    IF s # <<>> /\ s[Len(s)] \in Whitespace
    THEN rstrip(SubSeq(s, 1, Len(s) - 1))
    ELSE s

\* str.strip()
strip(s) == rstrip(lstrip(s))

----------------------------------------------------------------------------
(* BeautifulSoup lookups on a document. *)

\* one entry of the attrs filter: class is a multi-valued attribute, which
\* matches on any one of its words or on the whole value; any other
\* attribute matches on its value
MatchesAttr(e, a) ==
    IF a[1] = "class"
    THEN \E b \in e.attrs :
            /\ b[1] = "class"
            /\ (b[2] = a[2] \/ (Len(a[2]) = 1 /\ InSeq(a[2][1], b[2])))
    ELSE a \in e.attrs

Matches(e, tag, attrs) == e.tag = tag /\ \A a \in attrs : MatchesAttr(e, a)

\* soup.find(tag, attrs): the first matching element, or None
find(doc, tag, attrs) ==
    IF \E i \in 1..Len(doc) : Matches(doc[i], tag, attrs)
    THEN doc[CHOOSE i \in 1..Len(doc) :
                /\ Matches(doc[i], tag, attrs)
                /\ \A j \in 1..(i - 1) : ~Matches(doc[j], tag, attrs)]
    ELSE None

HasAttr(e, name) == \E a \in e.attrs : a[1] = name

Attr(e, name) == (CHOOSE a \in e.attrs : a[1] = name)[2]

\* soup.find_all(tag, attrs): the matching elements in document order
find_all(doc, tag, attrs) == SelectSeq(doc, LAMBDA e : Matches(e, tag, attrs))

\* position of the element soup.find(tag, attrs) returns, 0 when None
index_of(doc, tag, attrs) ==
    IF \E i \in 1..Len(doc) : Matches(doc[i], tag, attrs)
    THEN CHOOSE i \in 1..Len(doc) :
            /\ Matches(doc[i], tag, attrs)
            /\ \A j \in 1..(i - 1) : ~Matches(doc[j], tag, attrs)
    ELSE 0

\* the end tag of a container element, itself an entry of the document
EndTag(tag) ==
    CASE tag = "section" -> "/section"
      [] tag = "article" -> "/article"
      [] OTHER           -> "/"

\* position of the end tag that closes the container opened before j with
\* depth containers of the same tag still open; past the end of the
\* document when the parser closes it at the end of input
RECURSIVE end_of(_, _, _, _)
end_of(doc, j, tag, depth) ==
    IF j > Len(doc) THEN j
    ELSE IF doc[j].tag = tag THEN end_of(doc, j + 1, tag, depth + 1)
    ELSE IF doc[j].tag = EndTag(tag)
         THEN IF depth = 0 THEN j ELSE end_of(doc, j + 1, tag, depth - 1)
    ELSE end_of(doc, j + 1, tag, depth)

\* the descendants of the container at position i, in document order
descendants(doc, i) ==
    SubSeq(doc, i + 1, end_of(doc, i + 1, doc[i].tag, 0) - 1)

----------------------------------------------------------------------------
(* Extraction of the title, one definition per class. *)

UnknownTitle == <<"Unknown Title">>

\* NewsScraper._extract_title
generic_extract_title(doc) ==
    LET title_tag == find(doc, "h1", {})
    IN  IF title_tag # None THEN strip(title_tag.text) ELSE UnknownTitle

\* NYTimesScraper._extract_title
nyt_extract_title(doc) ==
    LET first == find(doc, "h1", {<<"data-testid", <<"headline">>>>})
        title_tag == IF first = None THEN find(doc, "h1", {}) ELSE first
    IN  IF title_tag # None THEN strip(title_tag.text) ELSE UnknownTitle

\* BBCScraper._extract_title
bbc_extract_title(doc) ==
    LET title_tag == find(doc, "h1", {<<"id", <<"main-heading">>>>})
    IN  IF title_tag # None THEN strip(title_tag.text) ELSE UnknownTitle

\* self._extract_title(soup), dispatched on the class of self
extract_title(v, doc) ==
    CASE v = "nytimes" -> nyt_extract_title(doc)
      [] v = "bbc"     -> bbc_extract_title(doc)
      [] OTHER         -> generic_extract_title(doc)

----------------------------------------------------------------------------
(* Extraction of the other fields. *)

\* ' '.join(texts)
RECURSIVE join(_)
join(texts) ==
    IF texts = <<>> THEN <<>>
    ELSE IF Len(texts) = 1 THEN texts[1]
    ELSE texts[1] \o <<" ">> \o join(Tail(texts))

\* ' '.join([p.text.strip() for p in paragraphs])
paragraphs_text(paragraphs) ==
    join([i \in 1..Len(paragraphs) |-> strip(paragraphs[i].text)])

\* NewsScraper._extract_content
generic_extract_content(doc) == paragraphs_text(find_all(doc, "p", {}))

\* NYTimesScraper._extract_content
nyt_extract_content(doc) ==
    LET article_section == index_of(doc, "section", {<<"name", <<"articleBody">>>>})
        paragraphs ==
            IF article_section # 0
            THEN find_all(descendants(doc, article_section), "p", {})
            ELSE find_all(doc, "p", {<<"class", <<"css-axufdj">>>>})
    IN  paragraphs_text(paragraphs)

\* BBCScraper._extract_content
bbc_extract_content(doc) ==
    LET article_body == index_of(doc, "article", {})
    IN  IF article_body # 0
        THEN paragraphs_text(find_all(descendants(doc, article_body), "p", {}))
        ELSE <<>>

extract_content(v, doc) ==
    CASE v = "nytimes" -> nyt_extract_content(doc)
      [] v = "bbc"     -> bbc_extract_content(doc)
      [] OTHER         -> generic_extract_content(doc)

\* NYTimesScraper._extract_author
nyt_extract_author(doc) ==
    LET first == find(doc, "span", {<<"itemprop", <<"name">>>>})
        author_tag == IF first = None
                      THEN find(doc, "span", {<<"class", <<"byline-author">>>>})
                      ELSE first
    IN  IF author_tag # None THEN Str(strip(author_tag.text)) ELSE None

\* BBCScraper._extract_author
bbc_extract_author(doc) ==
    LET author_tag ==
            find(doc, "div",
                 {<<"class", <<"ssrcss-68pt20-Text-TextContributorName">>>>})
    IN  IF author_tag # None THEN Str(strip(author_tag.text)) ELSE None

\* self._extract_author(soup); NewsScraper._extract_author returns None
extract_author(v, doc) ==
    CASE v = "nytimes" -> nyt_extract_author(doc)
      [] v = "bbc"     -> bbc_extract_author(doc)
      [] OTHER         -> None

\* NYTimesScraper._extract_summary
nyt_extract_summary(doc) ==
    LET first == find(doc, "p", {<<"id", <<"article-summary">>>>})
        summary_tag == IF first = None
                       THEN find(doc, "p", {<<"class", <<"css-w6ymp8">>>>})
                       ELSE first
    IN  IF summary_tag # None THEN Str(strip(summary_tag.text)) ELSE None

\* self._extract_summary(soup); only NYTimesScraper overrides it
extract_summary(v, doc) ==
    IF v = "nytimes" THEN nyt_extract_summary(doc) ELSE None

----------------------------------------------------------------------------
(* Dates.  A datetime is a record of its date, its time of day and its     *)
(* UTC offset (None when naive); its text is a sequence of the tokens      *)
(* below.                                                                  *)

DateTokens == {"2024-03-01"}

TimeTokens == {"12:00:00", "00:00:00"}

\* what a UTC offset reads as when it stands where a time is expected:
\* "+00:00" after a date is the separator "+" and the time "00:00"
OffsetTokens == {"+00:00"}

\* single characters
SeparatorTokens == {"T", " ", "x"}

\* str.replace('Z', '+00:00'): every Z, wherever it stands
replace_Z(text) ==
    [i \in 1..Len(text) |-> IF text[i] = "Z" THEN "+00:00" ELSE text[i]]

ParseError == [ok |-> FALSE]

Parsed(d) == [ok |-> TRUE, value |-> d]

\* datetime.fromisoformat: YYYY-MM-DD[*HH:MM:SS[+HH:MM]], the * being any
\* single character; ParseError stands for the ValueError
fromisoformat(text) ==
    IF Len(text) = 0 \/ Len(text) > 4 \/ text[1] \notin DateTokens
    THEN ParseError
    ELSE IF Len(text) = 1
    THEN Parsed([date |-> text[1], time |-> "00:00:00", tz |-> None])
    ELSE IF Len(text) = 2
    THEN IF text[2] \in OffsetTokens
         THEN Parsed([date |-> text[1], time |-> "00:00:00", tz |-> None])
         ELSE ParseError
    ELSE IF text[2] \notin SeparatorTokens \/ text[3] \notin TimeTokens
    THEN ParseError
    ELSE IF Len(text) = 3
    THEN Parsed([date |-> text[1], time |-> text[3], tz |-> None])
    ELSE IF text[4] \in OffsetTokens
    THEN Parsed([date |-> text[1], time |-> text[3],
                 tz |-> [offset |-> text[4]]])
    ELSE ParseError

\* datetime.isoformat()
isoformat(d) ==
    <<d.date, "T", d.time>> \o (IF d.tz = None THEN <<>> ELSE <<d.tz.offset>>)

\* NYTimesScraper._extract_date without its try/except: the ValueError of
\* fromisoformat leaves the method
sourced_extract_date_unguarded(doc) ==
    LET date_tag == find(doc, "time", {})
    IN  IF date_tag # None /\ HasAttr(date_tag, "datetime")
           /\ Attr(date_tag, "datetime") # <<>>
        THEN LET parsed == fromisoformat(replace_Z(Attr(date_tag, "datetime")))
             IN  IF parsed.ok
                 THEN [value |-> parsed.value, logged |-> <<>>, raised |-> FALSE]
                 ELSE [value |-> None, logged |-> <<>>, raised |-> TRUE]
        ELSE [value |-> None, logged |-> <<>>, raised |-> FALSE]

\* NYTimesScraper._extract_date and BBCScraper._extract_date, which are the
\* same code: value is the datetime or None, logged the logger.error
\* records, raised whether an exception leaves the method
sourced_extract_date(doc) ==
    LET date_tag == find(doc, "time", {})
    IN  IF date_tag # None /\ HasAttr(date_tag, "datetime")
           /\ Attr(date_tag, "datetime") # <<>>
        THEN LET parsed == fromisoformat(replace_Z(Attr(date_tag, "datetime")))
             IN  IF parsed.ok
                 THEN [value |-> parsed.value, logged |-> <<>>, raised |-> FALSE]
                 ELSE [value |-> None,
                       logged |-> <<[msg |-> "Error parsing date",
                                     cause |-> "ValueError"]>>,
                       raised |-> FALSE]
        ELSE [value |-> None, logged |-> <<>>, raised |-> FALSE]

\* self._extract_date(soup); NewsScraper._extract_date returns None
extract_date(v, doc) ==
    IF v \in {"nytimes", "bbc"} THEN sourced_extract_date(doc)
    ELSE [value |-> None, logged |-> <<>>, raised |-> FALSE]

----------------------------------------------------------------------------
(* Categories. *)

\* tag.get('content') is truthy
has_content(e) == HasAttr(e, "content") /\ Attr(e, "content") # <<>>

\* the for loop over keyword_tags
RECURSIVE keywords(_, _)
keywords(keyword_tags, categories) ==
    IF keyword_tags = <<>> THEN categories
    ELSE keywords(Tail(keyword_tags),
                  IF has_content(Head(keyword_tags))
                  THEN Append(categories, Attr(Head(keyword_tags), "content"))
                  ELSE categories)

\* NYTimesScraper._extract_categories that takes the keywords only
nyt_extract_categories_keywords(doc) ==
    keywords(find_all(doc, "meta", {<<"property", <<"article:tag">>>>}), <<>>)

\* NYTimesScraper._extract_categories
nyt_extract_categories(doc) ==
    LET section_tag == find(doc, "meta", {<<"property", <<"article:section">>>>})
        categories == IF section_tag # None /\ has_content(section_tag)
                      THEN <<Attr(section_tag, "content")>>
                      ELSE <<>>
        keyword_tags == find_all(doc, "meta", {<<"property", <<"article:tag">>>>})
    IN  keywords(keyword_tags, categories)

\* self._extract_categories(soup); only NYTimesScraper overrides it
extract_categories(v, doc) ==
    IF v = "nytimes" THEN nyt_extract_categories(doc) ELSE <<>>

----------------------------------------------------------------------------
(* Discovery of article URLs on a parsed front page. *)

\* soup.find_all('a', href=True), as the list of the href values
hrefs_of(doc) ==
    LET anchors == SelectSeq(doc, LAMBDA e : e.tag = "a" /\ HasAttr(e, "href"))
    IN  [i \in 1..Len(anchors) |-> Attr(anchors[i], "href")]

nyt_is_article(href) ==
    /\ StartsWith(href, <<"/">>)
    /\ \/ Contains(href, <<"/", "2023", "/">>)
       \/ Contains(href, <<"/", "2024", "/">>)

RECURSIVE nyt_loop(_, _, _, _)
nyt_loop(hrefs, i, article_links, n) ==
    IF i > Len(hrefs) THEN article_links
    ELSE LET href == hrefs[i]
             full_url == base_url("nytimes") \o href
         IN  IF nyt_is_article(href) /\ ~InSeq(full_url, article_links)
             THEN LET appended == Append(article_links, full_url)
                  IN  IF Len(appended) >= n THEN appended
                      ELSE nyt_loop(hrefs, i + 1, appended, n)
             ELSE nyt_loop(hrefs, i + 1, article_links, n)

\* NYTimesScraper._get_article_urls, from the parsed page on
nyt_article_links(doc, n) == nyt_loop(hrefs_of(doc), 1, <<>>, n)

bbc_is_article(href) ==
    /\ StartsWith(href, <<"/", "news", "/">>)
    /\ InSeq("-", href)

RECURSIVE bbc_loop(_, _, _, _)
bbc_loop(hrefs, i, article_links, n) ==
    IF i > Len(hrefs) THEN article_links
    ELSE LET href == hrefs[i]
             absolute == IF href # <<>> /\ Head(href) \in HttpTokens
                         THEN href
                         ELSE <<"https://www.bbc.com">> \o href
         IN  IF bbc_is_article(href) /\ ~InSeq(href, article_links)
             THEN LET appended == Append(article_links, absolute)
                  IN  IF Len(appended) >= n THEN appended
                      ELSE bbc_loop(hrefs, i + 1, appended, n)
             ELSE bbc_loop(hrefs, i + 1, article_links, n)

\* BBCScraper._get_article_urls, from the parsed page on
bbc_article_links(doc, n) == bbc_loop(hrefs_of(doc), 1, <<>>, n)

\* self._get_article_urls(limit), from the parsed page on; the base class
\* fetches nothing and returns []
article_links_of(v, doc, n) ==
    CASE v = "nytimes" -> nyt_article_links(doc, n)
      [] v = "bbc"     -> bbc_article_links(doc, n)
      [] OTHER         -> <<>>

----------------------------------------------------------------------------
(* The documents the model draws from. *)

Texts == SeqsUpTo({" ", "a"}, MaxText)

H1Attrs == {{}, {<<"data-testid", <<"headline">>>>}, {<<"id", <<"main-heading">>>>}}

ArticleElems ==
    {[tag |-> "h1", attrs |-> a, text |-> t] : a \in H1Attrs, t \in Texts}
      \cup {[tag |-> "p", attrs |-> {}, text |-> <<"a">>]}

ArticleDocs == SeqsUpTo(ArticleElems, MaxElems)

Hrefs ==
    { <<"/", "2024", "/", "a">>,
      <<"/", "2023", "/", "b">>,
      <<"/", "2022", "/", "d">>,
      <<"/", "news", "/", "w", "-", "1">>,
      <<"/", "news", "/", "live">>,
      <<"/", "news", "/", "2024", "/", "c", "-", "3">>,
      <<"https://www.nytimes.com", "/", "2024", "/", "a">> }

Anchors ==
    {[tag |-> "a", attrs |-> {<<"href", h>>}, text |-> <<"a">>] : h \in Hrefs}
      \cup {[tag |-> "a", attrs |-> {}, text |-> <<"a">>]}

FrontDocs == SeqsUpTo(Anchors, MaxLinks)

Limits == (0 - 1)..MaxLimit

\* texts of a datetime attribute: empty, not a date, a date, a date and
\* Z, date and time with T and with other separators, with Z, with an
\* offset, with something else behind
DateTexts ==
    { <<>>, <<"x">>, <<"Z">>,
      <<"2024-03-01">>, <<"2024-03-01", "Z">>, <<"2024-03-01", "T">>,
      <<"2024-03-01", "T", "12:00:00">>,
      <<"2024-03-01", " ", "12:00:00">>,
      <<"2024-03-01", "x", "12:00:00">>,
      <<"2024-03-01", "T", "12:00:00", "Z">>,
      <<"2024-03-01", "T", "00:00:00", "+00:00">>,
      <<"2024-03-01", "T", "12:00:00", "x">> }

TimeElems ==
    {[tag |-> "time", attrs |-> {}, text |-> <<"a">>]} \cup
    {[tag |-> "time", attrs |-> {<<"datetime", t>>}, text |-> <<"a">>] :
        t \in DateTexts}

DateDocs ==
    SeqsUpTo(TimeElems \cup {[tag |-> "p", attrs |-> {}, text |-> <<"a">>]},
             MaxElems)

\* meta elements: of either property or another, with a content, an empty
\* content or none
MetaElems ==
    {[tag |-> "meta", attrs |-> {<<"property", <<q>>>>} \cup c, text |-> <<>>] :
        q \in {"article:section", "article:tag", "og:title"},
        c \in {{}, {<<"content", <<>>>>}, {<<"content", <<"x">>>>},
                {<<"content", <<"y">>>>}}}

MetaDocs == SeqsUpTo(MetaElems, MaxLinks)

\* what an article page is made of: heading, paragraphs, containers and
\* their end tags, by-lines, time elements, a keyword
PageElems ==
    { [tag |-> "h1", attrs |-> {}, text |-> <<"a">>],
      [tag |-> "p", attrs |-> {}, text |-> <<"a", " ">>],
      [tag |-> "p", attrs |-> {<<"class", <<"css-axufdj", " ", "e">>>>},
       text |-> <<"b">>],
      [tag |-> "section", attrs |-> {<<"name", <<"articleBody">>>>},
       text |-> <<>>],
      [tag |-> "/section", attrs |-> {}, text |-> <<>>],
      [tag |-> "article", attrs |-> {}, text |-> <<>>],
      [tag |-> "/article", attrs |-> {}, text |-> <<>>],
      [tag |-> "span", attrs |-> {<<"itemprop", <<"name">>>>}, text |-> <<"c">>],
      [tag |-> "div",
       attrs |-> {<<"class", <<"ssrcss-68pt20-Text-TextContributorName">>>>},
       text |-> <<"c">>],
      [tag |-> "meta",
       attrs |-> {<<"property", <<"article:tag">>>>, <<"content", <<"x">>>>},
       text |-> <<>>] } \cup
    {[tag |-> "time", attrs |-> {}, text |-> <<"a">>]} \cup
    {[tag |-> "time", attrs |-> {<<"datetime", t>>}, text |-> <<"a">>] :
        t \in {<<>>, <<"x">>, <<"2024-03-01", "T", "12:00:00", "Z">>}}

PageDocs == SeqsUpTo(PageElems, MaxPage)

\* datetime objects
Datetimes ==
    [date : DateTokens, time : TimeTokens,
     tz : {None} \cup {[offset |-> o] : o \in OffsetTokens}]

\* arguments of NewsArticle(...)
ArticleArgs ==
    [title : {<<>>, <<"a">>}, content : {<<"a">>},
     url : {<<"https://example.com", "/", "x">>},
     source : {<<"example.com">>},
     author : {None, Str(<<>>), Str(<<"b">>)},
     date : {None} \cup Datetimes,
     summary : {None, Str(<<"a">>)},
     categories : {None} \cup {List(c) : c \in SeqsUpTo({"x", "y"}, MaxText)}]

----------------------------------------------------------------------------
(* The fetch client.  Each definition takes the clock and the scraper's    *)
(* last_request_time as it finds them and returns them as it leaves them.  *)

\* _respect_rate_limit with the bug of recording the time read before the
\* sleep instead of reading the clock again
respect_rate_limit_stale(t, last, oversleep) ==
    LET current_time == t
        time_since_last_request == current_time - last
        sleep_time == rate_limit - time_since_last_request
        woke == IF time_since_last_request < rate_limit
                THEN current_time + sleep_time + oversleep
                ELSE current_time
    IN  [now |-> woke, last_request_time |-> current_time]

\* NewsScraper._respect_rate_limit; time.sleep returns after the time asked
\* for plus an oversleep the scheduler decides
respect_rate_limit(t, last, oversleep) ==
    LET current_time == t
        time_since_last_request == current_time - last
        sleep_time == rate_limit - time_since_last_request
        woke == IF time_since_last_request < rate_limit
                THEN current_time + sleep_time + oversleep
                ELSE current_time
    IN  [now |-> woke, last_request_time |-> woke]

\* _make_request with the call of raise_for_status left out
raise_for_status_missing(status) == FALSE

\* a raise_for_status that raises on 5xx only
raise_for_status_5xx(status) == status >= 500 /\ status < 600

\* response.raise_for_status(): raises HTTPError on a 4xx or 5xx status
raise_for_status(status) == status >= 400 /\ status < 600

\* _make_request with the bug of asking again when the first answer fails
make_request_retry(t, last, url, reply, oversleep, latency) ==
    LET rl == respect_rate_limit(t, last, oversleep)
        start == rl.now
        failed == reply.kind = "error" \/ raise_for_status(reply.status)
        first == [url |-> url, start |-> start]
        second == [url |-> url, start |-> start + latency]
    IN  [now               |-> start + latency,
         last_request_time |-> rl.last_request_time,
         sent              |-> IF failed THEN <<first, second>> ELSE <<first>>,
         made              |-> 1,
         raised            |-> failed,
         cause             |-> IF reply.kind = "error"
                               THEN "ConnectionError"
                               ELSE "HTTPError",
         response          |-> reply]

\* NewsScraper._make_request.  sent lists the requests.get it issued, each
\* with the time it was issued at.
make_request(t, last, url, reply, oversleep, latency) ==
    LET rl == respect_rate_limit(t, last, oversleep)
        start == rl.now
        failed == reply.kind = "error" \/ raise_for_status(reply.status)
    IN  [now               |-> start + latency,
         last_request_time |-> rl.last_request_time,
         sent              |-> <<[url |-> url, start |-> start]>>,
         made              |-> 1,
         raised            |-> failed,
         cause             |-> IF reply.kind = "error"
                               THEN "ConnectionError"
                               ELSE "HTTPError",
         response          |-> reply]

----------------------------------------------------------------------------
(* The public operations. *)

\* NewsArticle.__init__; categories is None or a List
NewsArticle(title, content, url, source, author, date, summary, categories) ==
    [title |-> title, content |-> content, url |-> url, source |-> source,
     author |-> author, date |-> date, summary |-> summary,
     categories |-> IF categories = None THEN <<>> ELSE categories.list]

\* NewsArticle.to_dict that writes the day only
to_dict_day(article) ==
    [title |-> article.title, content |-> article.content,
     url |-> article.url, source |-> article.source,
     author |-> article.author,
     date |-> IF article.date # None THEN Str(<<article.date.date>>)
              ELSE None,
     summary |-> article.summary, categories |-> article.categories]

\* NewsArticle.to_dict: the date is its isoformat() text or None
to_dict(article) ==
    [title |-> article.title, content |-> article.content,
     url |-> article.url, source |-> article.source,
     author |-> article.author,
     date |-> IF article.date # None THEN Str(isoformat(article.date))
              ELSE None,
     summary |-> article.summary, categories |-> article.categories]

\* the statements of fetch_article after the request: the six extractions
\* and the construction of the NewsArticle
parse_article(v, url, body) ==
    LET date == extract_date(v, body)
    IN  [raised |-> date.raised,
         logged |-> date.logged,
         article |-> NewsArticle(extract_title(v, body),
                                 extract_content(v, body),
                                 url, domain(v),
                                 extract_author(v, body),
                                 date.value,
                                 extract_summary(v, body),
                                 List(extract_categories(v, body)))]

\* fetch_article without its try/except: an exception leaves the method
fetch_article_unguarded(v, t, last, url, reply, oversleep, latency) ==
    LET r == make_request(t, last, url, reply, oversleep, latency)
        a == parse_article(v, url, r.response.body)
    IN  [now |-> r.now, last_request_time |-> r.last_request_time,
         sent |-> r.sent, made |-> r.made, fetched |-> ~r.raised,
         ret |-> IF r.raised \/ a.raised THEN None ELSE a.article,
         raised |-> r.raised \/ a.raised,
         logged |-> IF r.raised THEN <<>> ELSE a.logged]

\* fetch_article that passes the URL the scraper was configured with
fetch_article_base_url(v, t, last, url, reply, oversleep, latency) ==
    LET r == make_request(t, last, url, reply, oversleep, latency)
        a == parse_article(v, base_url(v), r.response.body)
    IN  [now |-> r.now, last_request_time |-> r.last_request_time,
         sent |-> r.sent, made |-> r.made, fetched |-> ~r.raised,
         ret |-> IF r.raised \/ a.raised THEN None ELSE a.article,
         raised |-> FALSE,
         logged |-> IF r.raised
                    THEN <<[msg |-> "Error fetching article",
                            url |-> url, cause |-> r.cause]>>
                    ELSE a.logged]

\* NewsScraper.fetch_article: ret is the article or None; raised says
\* whether an exception leaves the method
fetch_article(v, t, last, url, reply, oversleep, latency) ==
    LET r == make_request(t, last, url, reply, oversleep, latency)
        a == parse_article(v, url, r.response.body)
    IN  IF r.raised
        THEN [now |-> r.now, last_request_time |-> r.last_request_time,
              sent |-> r.sent, made |-> r.made, fetched |-> FALSE,
              ret |-> None, raised |-> FALSE,
              logged |-> <<[msg |-> "Error fetching article",
                            url |-> url, cause |-> r.cause]>>]
        ELSE IF a.raised
        THEN [now |-> r.now, last_request_time |-> r.last_request_time,
              sent |-> r.sent, made |-> r.made, fetched |-> TRUE,
              ret |-> None, raised |-> FALSE,
              logged |-> a.logged \o <<[msg |-> "Error fetching article",
                                        url |-> url, cause |-> "ValueError"]>>]
        ELSE [now |-> r.now, last_request_time |-> r.last_request_time,
              sent |-> r.sent, made |-> r.made, fetched |-> TRUE,
              ret |-> a.article, raised |-> FALSE,
              logged |-> a.logged]

\* _get_article_urls: the base class returns [] without a request, the
\* subclasses fetch self.base_url and return [] when that raises
get_article_urls(v, t, last, n, reply, oversleep, latency) ==
    IF v = "generic"
    THEN [now |-> t, last_request_time |-> last, sent |-> <<>>, made |-> 0,
          fetched |-> FALSE, urls |-> <<>>, logged |-> <<>>]
    ELSE LET r == make_request(t, last, base_url(v), reply, oversleep, latency)
         IN  IF r.raised
             THEN [now |-> r.now, last_request_time |-> r.last_request_time,
                   sent |-> r.sent, made |-> r.made, fetched |-> FALSE,
                   urls |-> <<>>,
                   logged |-> <<[msg |-> "Error getting article URLs",
                                 url |-> base_url(v), cause |-> r.cause]>>]
             ELSE [now |-> r.now, last_request_time |-> r.last_request_time,
                   sent |-> r.sent, made |-> r.made, fetched |-> TRUE,
                   urls |-> article_links_of(v, r.response.body, n),
                   logged |-> <<>>]

----------------------------------------------------------------------------
(* What the network may answer. *)

\* final status codes of a response: 1xx, 2xx, 3xx not followed, 4xx, 5xx
Statuses == {101, 200, 304, 404, 503}

NetError == [kind |-> "error", status |-> 0, body |-> <<>>]

Responses(statuses, bodies) ==
    {[kind |-> "response", status |-> c, body |-> b] : c \in statuses, b \in bodies}

\* the network's answer without the body
Outcome(reply) == [kind |-> reply.kind, status |-> reply.status]

\* the answers served to the scraper during a behaviour: no answer, a page
\* with status 200, or an error page with status 404; one article page;
\* front pages whose links are articles for both sources

ArticlePages == { <<[tag |-> "h1", attrs |-> {}, text |-> <<"a">>]>> }

FrontHrefs ==
    { <<"/", "news", "/", "2023", "/", "b", "-", "2">>,
      <<"/", "news", "/", "2024", "/", "c", "-", "3">> }

FrontPages ==
    SeqsUpTo({[tag |-> "a", attrs |-> {<<"href", h>>}, text |-> <<"a">>] :
                 h \in FrontHrefs}, MaxLimit)

\* the page sent with a 404 for the front page links to an article
FrontErrorPages == {d \in FrontPages : Len(d) = 1}

ArticleAnswers ==
    {NetError} \cup Responses({200, 404}, ArticlePages)

FrontAnswers ==
    {NetError} \cup Responses({200}, FrontPages)
               \cup Responses({404}, FrontErrorPages)

ArgUrls ==
    { <<"https://example.com", "/", "x">>,
      <<"https://www.nytimes.com", "/", "2024", "/", "a">> }

\* a sleep or a request takes no extra tick, or the most the model follows
Delays == {0, MaxDelay}

\* the start times of the last two requests, after the requests in sent
RECURSIVE Starts(_, _, _)
Starts(prev, last, sent) ==
    IF sent = <<>> THEN <<prev, last>>
    ELSE Starts(last, Head(sent).start, Tail(sent))

Urls(sent) == [i \in 1..Len(sent) |-> sent[i].url]

----------------------------------------------------------------------------
(* Spec: one scraper and its caller. *)

Init ==
    /\ variant \in Variants
    /\ rate_limit \in 1..MaxRateLimit
    /\ now = MaxRateLimit      \* time.time() is far from the initial 0
    /\ last_request_time = 0
    /\ prev_start = 0 - 1 /\ last_start = 0 - 1 /\ calls = 0 /\ gets = 0
    /\ net = None
    /\ requests = <<>> /\ log = <<>>
    /\ pc = "idle" /\ op = "none" /\ arg_url = <<>> /\ limit = 0
    /\ front = None /\ article_urls = <<>> /\ idx = 0 /\ outcomes = <<>>
    /\ articles = <<>> /\ result = None /\ latest = <<>> /\ raised = FALSE
    /\ fn = "none" /\ soup = <<>> /\ lim = 0 /\ answer = None /\ args = None
    /\ out = NotApplied

\* the caller lets time pass between two calls
Tick ==
    /\ pc = "idle" /\ now < MaxTime
    /\ now' = now + 1
    /\ UNCHANGED <<variant, rate_limit, last_request_time, prev_start,
                   last_start, calls, gets, net, requests,
                   log, pc, op, arg_url, limit, front, article_urls, idx,
                   outcomes, articles, result, latest, raised, fnVars>>

\* what every request leaves in the scraper and in the bookkeeping
Requested(r, reply, calls0, gets0) ==
    /\ r.now <= MaxTime
    /\ now' = r.now
    /\ last_request_time' = r.last_request_time
    /\ prev_start' = Starts(prev_start, last_start, r.sent)[1]
    /\ last_start' = Starts(prev_start, last_start, r.sent)[2]
    /\ calls' = calls0 + r.made
    /\ gets' = gets0 + Len(r.sent)
    /\ net' = IF r.made > 0 THEN Outcome(reply) ELSE net

\* the caller calls fetch_article(url)
FetchArticle ==
    /\ pc = "idle"
    /\ \E url \in ArgUrls, ans \in ArticleAnswers,
          oversleep \in Delays, latency \in Delays :
          \E r \in {fetch_article(variant, now, last_request_time, url,
                                  ans, oversleep, latency)} :
              /\ Requested(r, ans, 0, 0)
              /\ op' = "fetch_article"
              /\ arg_url' = url
              /\ requests' = Urls(r.sent)
              /\ log' = r.logged
              /\ result' = r.ret
              /\ raised' = r.raised
    \* nothing is left of the call before
    /\ limit' = 0 /\ front' = None /\ article_urls' = <<>> /\ idx' = 0
    /\ outcomes' = <<>> /\ articles' = <<>> /\ latest' = <<>>
    /\ UNCHANGED <<variant, rate_limit, pc, fnVars>>

\* the caller calls fetch_latest_articles(limit): up to the for loop
FetchLatestStart ==
    /\ pc = "idle"
    /\ \E n \in Limits, ans \in FrontAnswers,
          oversleep \in Delays, latency \in Delays :
          \E r \in {get_article_urls(variant, now, last_request_time, n,
                                     ans, oversleep, latency)} :
              /\ Requested(r, ans, 0, 0)
              /\ op' = "fetch_latest"
              /\ limit' = n
              /\ front' = IF r.made > 0 THEN Outcome(ans) ELSE None
              /\ requests' = Urls(r.sent)
              /\ log' = r.logged
              /\ article_urls' = r.urls
              /\ articles' = <<>>
              /\ outcomes' = <<>>
              /\ idx' = 1
              /\ raised' = FALSE
              /\ IF r.urls = <<>>
                 THEN pc' = "idle" /\ latest' = <<>>
                 ELSE pc' = "loop" /\ latest' = <<>>
    \* nothing is left of the call before
    /\ arg_url' = <<>> /\ result' = None
    /\ UNCHANGED <<variant, rate_limit, fnVars>>

\* one turn of the for loop of fetch_latest_articles, and the return when
\* the loop breaks or runs out of URLs
FetchLatestStep ==
    /\ pc = "loop"
    /\ \E ans \in ArticleAnswers,
          oversleep \in Delays, latency \in Delays :
          \E r \in {fetch_article(variant, now, last_request_time,
                                  article_urls[idx], ans, oversleep,
                                  latency)} :
          LET url == article_urls[idx]
              appended == IF r.ret # None THEN Append(articles, r.ret)
                          ELSE articles
              break == r.ret # None /\ Len(appended) >= limit
          IN  /\ Requested(r, ans, calls, gets)
              /\ requests' = requests \o Urls(r.sent)
              /\ outcomes' = Append(outcomes, ~r.raised /\ r.ret # None)
              /\ raised' = FALSE
              /\ IF r.raised
                 THEN \* except Exception: log and return []
                      /\ log' = log \o r.logged \o
                                <<[msg |-> "Error fetching latest articles",
                                   url |-> url, cause |-> "Exception"]>>
                      /\ articles' = articles
                      /\ latest' = <<>>
                      /\ pc' = "idle"
                      /\ idx' = idx
                 ELSE /\ log' = log \o r.logged
                      /\ articles' = appended
                      /\ IF break \/ idx = Len(article_urls)
                         THEN pc' = "idle" /\ latest' = appended /\ idx' = idx
                         ELSE pc' = "loop" /\ latest' = latest /\ idx' = idx + 1
    /\ UNCHANGED <<variant, rate_limit, op, arg_url, limit, front,
                   article_urls, result, fnVars>>

Next == Tick \/ FetchArticle \/ FetchLatestStart \/ FetchLatestStep

Spec == Init /\ [][Next]_vars

----------------------------------------------------------------------------
(* FnSpec: the pure functions, applied to every input within the bounds.   *)

FnInit ==
    /\ variant \in Variants
    /\ fn \in {"extract_title", "article_links", "make_request",
               "extract_date", "extract_categories", "fetch_article",
               "to_dict"}
    /\ \/ /\ fn = "extract_title"
          /\ soup \in ArticleDocs /\ lim = 0 /\ answer = None /\ args = None
          /\ rate_limit = 1 /\ now = MaxRateLimit /\ last_request_time = 0
       \/ /\ fn = "article_links"
          /\ soup \in FrontDocs /\ lim \in Limits /\ answer = None /\ args = None
          /\ rate_limit = 1 /\ now = MaxRateLimit /\ last_request_time = 0
       \/ /\ fn = "make_request"
          /\ soup = <<>> /\ lim = 0 /\ args = None
          /\ answer \in {NetError} \cup Responses(Statuses, {<<>>})
          /\ rate_limit \in 1..MaxRateLimit
          /\ now \in MaxRateLimit..MaxTime
          /\ last_request_time \in {0} \cup (MaxRateLimit..now)
       \/ /\ fn = "extract_date"
          /\ soup \in DateDocs /\ lim = 0 /\ answer = None /\ args = None
          /\ rate_limit = 1 /\ now = MaxRateLimit /\ last_request_time = 0
       \/ /\ fn = "extract_categories"
          /\ soup \in MetaDocs /\ lim = 0 /\ answer = None /\ args = None
          /\ rate_limit = 1 /\ now = MaxRateLimit /\ last_request_time = 0
       \/ /\ fn = "fetch_article"
          /\ soup \in PageDocs /\ lim = 0 /\ args = None
          /\ answer \in Responses({200}, {soup})
          /\ rate_limit = 1 /\ now = MaxRateLimit /\ last_request_time = 0
       \/ /\ fn = "to_dict"
          /\ variant = "generic"
          /\ soup = <<>> /\ lim = 0 /\ answer = None /\ args \in ArticleArgs
          /\ rate_limit = 1 /\ now = MaxRateLimit /\ last_request_time = 0
    /\ out = NotApplied
    /\ prev_start = 0 - 1 /\ last_start = 0 - 1 /\ calls = 0 /\ gets = 0
    /\ net = None
    /\ requests = <<>> /\ log = <<>>
    /\ pc = "idle" /\ op = "none" /\ arg_url = <<>> /\ limit = 0
    /\ front = None /\ article_urls = <<>> /\ idx = 0 /\ outcomes = <<>>
    /\ articles = <<>> /\ result = None /\ latest = <<>> /\ raised = FALSE

ExtractTitle ==
    /\ fn = "extract_title" /\ out = NotApplied
    /\ out' = Applied(extract_title(variant, soup))
    /\ UNCHANGED <<variant, fn, soup, lim, answer, args, scraperVars>>

DiscoverArticleURLs ==
    /\ fn = "article_links" /\ out = NotApplied
    /\ out' = Applied(article_links_of(variant, soup, lim))
    /\ UNCHANGED <<variant, fn, soup, lim, answer, args, scraperVars>>

\* one call of _make_request(url); the clock and last_request_time are left
\* as they were, for the result to be read against them
MakeRequest ==
    /\ fn = "make_request" /\ out = NotApplied
    /\ \E url \in ArgUrls, oversleep \in Delays, latency \in Delays :
          out' = Applied(make_request(now, last_request_time, url, answer,
                                      oversleep, latency))
    /\ UNCHANGED <<variant, fn, soup, lim, answer, args, scraperVars>>

ExtractDate ==
    /\ fn = "extract_date" /\ out = NotApplied
    /\ out' = Applied(extract_date(variant, soup))
    /\ UNCHANGED <<variant, fn, soup, lim, answer, args, scraperVars>>

ExtractCategories ==
    /\ fn = "extract_categories" /\ out = NotApplied
    /\ out' = Applied(extract_categories(variant, soup))
    /\ UNCHANGED <<variant, fn, soup, lim, answer, args, scraperVars>>

\* one call of fetch_article(url) that is answered with the page soup
FetchArticlePage ==
    /\ fn = "fetch_article" /\ out = NotApplied
    /\ \E url \in ArgUrls :
          /\ arg_url' = url
          /\ out' = Applied(fetch_article(variant, now, last_request_time,
                                          url, answer, 0, 0))
    /\ UNCHANGED <<variant, fn, soup, lim, answer, args, rate_limit, now,
                   last_request_time, prev_start, last_start, calls, gets,
                   net, requests, log, pc, op, limit, front, article_urls,
                   idx, outcomes, articles, result, latest, raised>>

\* NewsArticle(**args).to_dict()
Serialize ==
    /\ fn = "to_dict" /\ out = NotApplied
    /\ out' = Applied(to_dict(NewsArticle(args.title, args.content, args.url,
                                          args.source, args.author, args.date,
                                          args.summary, args.categories)))
    /\ UNCHANGED <<variant, fn, soup, lim, answer, args, scraperVars>>

FnNext ==
    \/ ExtractTitle \/ DiscoverArticleURLs \/ MakeRequest
    \/ ExtractDate \/ ExtractCategories \/ FetchArticlePage \/ Serialize

FnSpec == FnInit /\ [][FnNext]_vars

----------------------------------------------------------------------------
(* The properties. *)

\* a fetch fails on no answer and on an error status
Failed(o) == o.kind = "error" \/ (o.status >= 400 /\ o.status < 600)

RECURSIVE Successes(_, _)
Successes(flags, k) ==
    IF k = 0 THEN 0
    ELSE Successes(flags, k - 1) + (IF flags[k] THEN 1 ELSE 0)

Take(s, n) == IF n <= 0 THEN <<>> ELSE SubSeq(s, 1, IF n < Len(s) THEN n ELSE Len(s))

RECURSIVE Distinct(_)
Distinct(s) ==
    IF s = <<>> THEN <<>>
    ELSE LET rest == Distinct(SubSeq(s, 1, Len(s) - 1))
         IN  IF InSeq(s[Len(s)], rest) THEN rest ELSE Append(rest, s[Len(s)])

\* the absolute URLs of the links of a front page that qualify as articles
\* of the source, in document order
Qualifying(v, doc) ==
    LET hs == hrefs_of(doc)
        picked == SelectSeq(hs, LAMBDA h :
                      CASE v = "nytimes" -> nyt_is_article(h)
                        [] v = "bbc"     -> bbc_is_article(h)
                        [] OTHER         -> FALSE)
    IN  [i \in 1..Len(picked) |->
            IF v = "nytimes" THEN <<"https://www.nytimes.com">> \o picked[i]
            ELSE <<"https://www.bbc.com">> \o picked[i]]

\* the URLs of the article requests of the fetch_latest_articles in progress
Visited == IF front = None THEN requests ELSE Tail(requests)

\* C1: the start times of two consecutive requests of one scraper are at
\* least rate_limit apart, and last_request_time is the time read after the
\* wait, at which the request is issued.
C1_Pacing ==
    /\ prev_start >= 0 => last_start - prev_start >= rate_limit
    /\ last_start >= 0 => last_request_time = last_start

\* C1 witness: a second request that had to wait out the interval
C1_Witness ==
    /\ gets >= 2 /\ prev_start >= 0
    /\ last_start - prev_start = rate_limit

\* C2: fetch_latest_articles(limit) returns at most limit articles, for
\* every integer limit: none when limit is 0 or negative.
C2_AtMostLimit ==
    (op = "fetch_latest" /\ pc = "idle") =>
        Len(latest) <= (IF limit > 0 THEN limit ELSE 0)

\* C3: the discovery of article URLs never returns the same URL twice.
C3_NoDuplicateURLs ==
    (fn = "article_links" /\ out.applied) =>
        \A i, j \in 1..Len(out.value) :
            i # j => out.value[i] # out.value[j]

\* C4: the discovery returns at most limit URLs (none when limit is 0 or
\* negative), and they are the first limit distinct qualifying links of the
\* page in document order (all of them when there are fewer).
C4_FirstLimitInOrder ==
    (fn = "article_links" /\ out.applied) =>
        /\ Len(out.value) <= (IF lim > 0 THEN lim ELSE 0)
        /\ out.value = Take(Distinct(Qualifying(variant, soup)), lim)

\* C5: fetch_article never raises; when the fetch fails it returns None
\* and logs the URL and the cause, otherwise it returns the article; the
\* same holds of every call the loop of fetch_latest_articles makes, which
\* goes on fetching after a failure.
C5_FetchArticleNeverRaises ==
    /\ ~raised
    /\ op = "fetch_article" =>
          /\ pc = "idle"
          /\ IF Failed(net)
             THEN /\ result = None
                  /\ Len(log) = 1
                  /\ log[1].url = arg_url
                  /\ log[1].cause =
                        (IF net.kind = "error" THEN "ConnectionError" ELSE "HTTPError")
             ELSE /\ result # None
                  /\ log = <<>>
    /\ (op = "fetch_latest" /\ outcomes # <<>>) =>
          /\ outcomes[Len(outcomes)] = ~Failed(net)
          /\ LET errors == SelectSeq(log, LAMBDA l : l.msg = "Error fetching article")
                 failing == SelectSeq([i \in 1..Len(outcomes) |->
                                          [url |-> Visited[i], ok |-> outcomes[i]]],
                                      LAMBDA x : ~x.ok)
             IN  /\ Len(errors) = Len(failing)
                 /\ \A i \in 1..Len(errors) : errors[i].url = failing[i].url

\* C5 witness: an article fetch that failed, and a later one by the same
\* scraper that succeeded
C5_Witness ==
    /\ op = "fetch_latest"
    /\ outcomes = <<FALSE, TRUE>>
    /\ Len(articles) = 1

\* C6: fetch_latest_articles visits the discovered URLs in order, requests
\* no article once limit articles are accumulated, is not stopped by a
\* failure, and returns the articles of the URLs whose fetch succeeded, in
\* that order.
C6_InOrderUntilLimit ==
    op = "fetch_latest" =>
        /\ Len(outcomes) = Len(Visited)
        /\ Visited = SubSeq(article_urls, 1, Len(Visited))
        /\ \A k \in 1..Len(Visited) : Successes(outcomes, k - 1) < limit
        /\ pc = "idle" =>
              /\ \/ Len(Visited) = Len(article_urls)
                 \/ Successes(outcomes, Len(outcomes)) >= limit
              /\ LET ok == SelectSeq([i \in 1..Len(Visited) |->
                                         [url |-> Visited[i], ok |-> outcomes[i]]],
                                     LAMBDA x : x.ok)
                 IN  /\ Len(latest) = Len(ok)
                     /\ \A i \in 1..Len(ok) : latest[i].url = ok[i].url

\* C7: when the fetch of the front page fails, fetch_latest_articles
\* returns an empty list without raising and requests no article.
C7_FrontFailureEmpty ==
    (op = "fetch_latest" /\ front # None /\ Failed(front)) =>
        /\ pc = "idle"
        /\ ~raised
        /\ latest = <<>>
        /\ article_urls = <<>>
        /\ requests = <<base_url(variant)>>

\* C7 witness: a front page answered 404 to a call that asked for articles
C7_Witness ==
    /\ op = "fetch_latest" /\ limit >= 1
    /\ front # None /\ front.kind = "response" /\ front.status = 404
    /\ pc = "idle"

\* C8: the extraction of the title never returns an empty text: it is the
\* text of a heading of the page or the sentinel "Unknown Title".
C8_TitleNeverEmpty ==
    (fn = "extract_title" /\ out.applied) =>
        /\ out.value # <<>>
        /\ \/ out.value = UnknownTitle
           \/ \E i \in 1..Len(soup) :
                 soup[i].tag = "h1" /\ strip(soup[i].text) = out.value

\* C9: a call of _make_request issues exactly one request, whether it
\* succeeds or fails; fetch_article issues exactly one, for its URL.
C9_NoRetry ==
    /\ gets = calls
    /\ Len(requests) = gets
    /\ op = "fetch_article" => (gets = 1 /\ requests = <<arg_url>>)

\* C9 witness: a fetch_article whose only request failed
C9_Witness ==
    /\ op = "fetch_article" /\ Failed(net) /\ result = None
    /\ gets = 1

IsISO8601(text) ==
    \/ Len(text) = 1 /\ text[1] \in DateTokens
    \/ /\ Len(text) \in {3, 4}
       /\ text[1] \in DateTokens /\ text[2] = "T" /\ text[3] \in TimeTokens
       /\ Len(text) = 4 => text[4] \in {"Z"} \cup OffsetTokens

\* the time element _extract_date looks at has a datetime attribute
HasDatetime(doc) ==
    /\ find(doc, "time", {}) # None
    /\ HasAttr(find(doc, "time", {}), "datetime")

Datetime(doc) == Attr(find(doc, "time", {}), "datetime")

ValidTime ==
    [tag |-> "time",
     attrs |-> {<<"datetime", <<"2024-03-01", "T", "12:00:00", "Z">>>>},
     text |-> <<"a">>]

\* the page with a valid date in the place of the one it has, or added
WithValidDate(doc) ==
    IF find(doc, "time", {}) = None THEN Append(doc, ValidTime)
    ELSE [i \in 1..Len(doc) |->
            IF i = index_of(doc, "time", {}) THEN ValidTime ELSE doc[i]]

\* the fields of an article other than its date
OtherFields(a) ==
    <<a.title, a.content, a.url, a.source, a.author, a.summary, a.categories>>

\* C11 as stated: _extract_date of a source never raises; it returns None
\* when the time element or its datetime attribute is missing or the text
\* is not ISO-8601, and in the last case it logs the parse failure.
C11_UnparseableLogged ==
    (fn = "extract_date" /\ out.applied /\ variant \in {"nytimes", "bbc"}) =>
        /\ ~out.value.raised
        /\ (~HasDatetime(soup) \/ ~IsISO8601(Datetime(soup))) =>
               out.value.value = None
        /\ (HasDatetime(soup) /\ ~IsISO8601(Datetime(soup))) =>
               out.value.logged # <<>>

\* C11 amended: _extract_date never raises; when the time element or its
\* datetime attribute is missing or empty it returns None and logs nothing;
\* when fromisoformat rejects the text (after Z is replaced by +00:00) it
\* returns None and logs the parse failure; and fetch_article returns an
\* article whose other fields are those of the page with a valid date.
C11_DateNeverRaises ==
    /\ (fn = "extract_date" /\ out.applied) =>
          /\ ~out.value.raised
          /\ (~HasDatetime(soup) \/ Datetime(soup) = <<>>) =>
                out.value.value = None /\ out.value.logged = <<>>
          /\ (/\ variant \in {"nytimes", "bbc"}
              /\ HasDatetime(soup) /\ Datetime(soup) # <<>>
              /\ ~fromisoformat(replace_Z(Datetime(soup))).ok) =>
                /\ out.value.value = None
                /\ Len(out.value.logged) = 1
                /\ out.value.logged[1].msg = "Error parsing date"
    /\ (fn = "fetch_article" /\ out.applied) =>
          LET valid == fetch_article(variant, now, last_request_time, arg_url,
                                     [kind |-> "response", status |-> 200,
                                      body |-> WithValidDate(soup)], 0, 0)
          IN  /\ ~out.value.raised
              /\ out.value.ret # None
              /\ valid.ret # None
              /\ variant \in {"nytimes", "bbc"} => valid.ret.date # None
              /\ OtherFields(out.value.ret) = OtherFields(valid.ret)

\* C11 witness: an article returned from a page whose date does not parse
C11_Witness ==
    /\ fn = "fetch_article" /\ out.applied /\ variant = "nytimes"
    /\ HasDatetime(soup) /\ Datetime(soup) = <<"x">>
    /\ out.value.ret # None
    /\ out.value.ret.date = None
    /\ out.value.logged # <<>>

\* the designated metadata elements that have a content value
IsCategoryMeta(e) ==
    /\ e.tag = "meta"
    /\ \/ <<"property", <<"article:section">>>> \in e.attrs
       \/ <<"property", <<"article:tag">>>> \in e.attrs
    /\ \E a \in e.attrs : a[1] = "content" /\ a[2] # <<>>

IsTagMeta(e) ==
    /\ IsCategoryMeta(e)
    /\ <<"property", <<"article:tag">>>> \in e.attrs

Contents(elems) == [i \in 1..Len(elems) |-> Attr(elems[i], "content")]

\* the first article:section element of the document, when it has a
\* content value
FirstSection(doc) ==
    LET sections == SelectSeq(doc, LAMBDA e :
                        /\ e.tag = "meta"
                        /\ <<"property", <<"article:section">>>> \in e.attrs)
    IN  IF sections # <<>> /\ IsCategoryMeta(sections[1])
        THEN <<sections[1]>> ELSE <<>>

\* C12 as stated: NYTimesScraper._extract_categories returns the content
\* values of the article:section and article:tag elements in the order of
\* the document, duplicates kept; the generic scraper returns [].
C12_DocumentOrder ==
    (fn = "extract_categories" /\ out.applied) =>
        /\ variant = "nytimes" =>
              out.value = Contents(SelectSeq(soup, IsCategoryMeta))
        /\ variant = "generic" => out.value = <<>>

\* C12 amended: NYTimesScraper._extract_categories returns the content of
\* the first article:section element, when it has one, followed by the
\* content values of the article:tag elements in the order of the document,
\* duplicates kept; the generic scraper returns [].
C12_SectionThenTags ==
    (fn = "extract_categories" /\ out.applied) =>
        /\ variant = "nytimes" =>
              out.value = Contents(FirstSection(soup)) \o
                          Contents(SelectSeq(soup, IsTagMeta))
        /\ variant = "generic" => out.value = <<>>

\* C12 witness: a keyword before the section in the document, and the same
\* keyword again behind it
C12_Witness ==
    /\ fn = "extract_categories" /\ out.applied /\ variant = "nytimes"
    /\ Len(soup) = 3
    /\ IsTagMeta(soup[1]) /\ FirstSection(soup) = <<soup[2]>>
    /\ IsTagMeta(soup[3])
    /\ out.value = <<<<"y">>, <<"x">>, <<"x">>>>

\* C13: NewsArticle(...).to_dict() holds title, url, source, author and
\* summary as they were passed, the categories as passed or [] for None,
\* and for the date None for None and otherwise a text that fromisoformat
\* reads back as the datetime that was passed.
C13_RoundTrip ==
    (fn = "to_dict" /\ out.applied) =>
        LET d == out.value
        IN  /\ d.title = args.title /\ d.url = args.url
            /\ d.source = args.source
            /\ d.author = args.author /\ d.summary = args.summary
            /\ d.categories = IF args.categories = None THEN <<>>
                              ELSE args.categories.list
            /\ args.date = None => d.date = None
            /\ args.date # None =>
                  /\ d.date # None
                  /\ fromisoformat(d.date.str) = Parsed(args.date)

\* C13 witness: an article with a date that has an offset, and without
\* author and categories, was serialized
C13_Witness ==
    /\ fn = "to_dict" /\ out.applied
    /\ args.date # None /\ args.date.tz # None /\ args.date.time = "12:00:00"
    /\ args.author = None /\ args.categories = None
    /\ out.value.categories = <<>>
    /\ out.value.date = Str(<<"2024-03-01", "T", "12:00:00", "+00:00">>)

\* the host of a URL, whose first token holds scheme and host
Host(url) ==
    CASE url[1] = "https://www.nytimes.com" -> <<"www.nytimes.com">>
      [] url[1] = "https://www.bbc.com"     -> <<"www.bbc.com">>
      [] OTHER                              -> <<"example.com">>

HasTag(doc, tag) == \E i \in 1..Len(doc) : doc[i].tag = tag

\* the page has an element that the scraper's _extract_author looks for
HasAuthorElement(v, doc) ==
    \E i \in 1..Len(doc) :
        \/ /\ v = "nytimes" /\ doc[i].tag = "span"
           /\ \E a \in doc[i].attrs :
                \/ a = <<"itemprop", <<"name">>>>
                \/ a[1] = "class" /\ InSeq("byline-author", a[2])
        \/ /\ v = "bbc" /\ doc[i].tag = "div"
           /\ \E a \in doc[i].attrs :
                /\ a[1] = "class"
                /\ InSeq("ssrcss-68pt20-Text-TextContributorName", a[2])

=============================================================================
